---- MODULE Spec2Model ----
(***************************************************************************)
(* A model of the agent loop of src/src/python_agent_loop.py: the          *)
(* directive parser (parse_agent_json), the plan renderer (format_plan),   *)
(* the tool table (TOOLS) and the loop driver (run_agent).                 *)
(*                                                                         *)
(* Texts are TLA+ strings and are handled character by character, as the   *)
(* Python code handles them.  A value decoded from JSON is a tagged record *)
(* [k, v]: k is "str", "num", "bool", "null", "list" or "obj"; v is the     *)
(* text of a scalar, the sequence of a list, or the key -> value function   *)
(* of an object.  Python's None is the value of JSON null.                  *)
(***************************************************************************)
EXTENDS Integers, Sequences, FiniteSets, TLC

\* The largest step budget (max_steps) a run is started with.
MaxSteps == 3

----------------------------------------------------------------------------
(* Text helpers: the str methods the code uses.                            *)

\* s[a-1:b]: the characters a..b of s that exist
Slice(s, a, b) ==
    LET lo == IF a < 1 THEN 1 ELSE a
        hi == IF b > Len(s) THEN Len(s) ELSE b
    IN  IF lo > hi THEN "" ELSE SubSeq(s, lo, hi)

Char(s, i) == Slice(s, i, i)

IsWs(c) == c \in {" ", "\n", "\t"}

IsDigit(c) == c \in {"0", "1", "2", "3", "4", "5", "6", "7", "8", "9"}

\* str.startswith
StartsWith(s, p) == Slice(s, 1, Len(p)) = p

RECURSIVE SkipWs(_, _)
\* the index of the first character at or after i that is not whitespace
SkipWs(s, i) == IF i <= Len(s) /\ IsWs(Char(s, i)) THEN SkipWs(s, i + 1) ELSE i

RECURSIVE SkipWsBack(_, _)
\* the index of the last character at or before i that is not whitespace
SkipWsBack(s, i) == IF i >= 1 /\ IsWs(Char(s, i)) THEN SkipWsBack(s, i - 1) ELSE i

\* str.strip
Strip(s) == Slice(s, SkipWs(s, 1), SkipWsBack(s, Len(s)))

RECURSIVE FindFrom(_, _, _)
\* the index of the first occurrence of character c at or after i, 0 if none
FindFrom(s, c, i) ==
    IF i > Len(s) THEN 0
    ELSE IF Char(s, i) = c THEN i
    ELSE FindFrom(s, c, i + 1)

RECURSIVE FindLast(_, _, _)
\* the index of the last occurrence of character c at or before i, 0 if none
FindLast(s, c, i) ==
    IF i < 1 THEN 0
    ELSE IF Char(s, i) = c THEN i
    ELSE FindLast(s, c, i - 1)

RECURSIVE DigitsEnd(_, _)
\* the index after the run of digits that starts at i
DigitsEnd(s, i) == IF IsDigit(Char(s, i)) THEN DigitsEnd(s, i + 1) ELSE i

----------------------------------------------------------------------------
(* Decoded JSON values.                                                    *)

JStr(s) == [k |-> "str", v |-> s]
JNum(s) == [k |-> "num", v |-> s]
JBool(s) == [k |-> "bool", v |-> s]
None == [k |-> "null", v |-> "None"]
JList(q) == [k |-> "list", v |-> q]
JObj(f) == [k |-> "obj", v |-> f]
EmptyDict == JObj([x \in {} |-> None])

IsNone(x) == x.k = "null"
IsStr(x) == x.k = "str"
IsList(x) == x.k = "list"
IsDict(x) == x.k = "obj"
\* x == s for a Python str s
EqStr(x, s) == IsStr(x) /\ x.v = s
\* dict.get(key, default)
Get(d, key, default) == IF key \in DOMAIN d.v THEN d.v[key] ELSE default
\* list and dict values are unhashable
Hashable(x) == x.k \notin {"list", "obj"}

(* json.loads: a recursive-descent decoder.  A result is                   *)
(* [ok, val, next]: next is the index after the decoded value.  Strings    *)
(* hold no escapes and numbers are runs of digits.                          *)
Fail == [ok |-> FALSE, val |-> None, next |-> 0]
Ok(v, n) == [ok |-> TRUE, val |-> v, next |-> n]

RECURSIVE ParseValue(_, _)
RECURSIVE ParseElems(_, _, _)
RECURSIVE ParseMembers(_, _, _)

\* a string that opens at i and closes at j (0: it never closes)
StringUpTo(s, i, j) == IF j = 0 THEN Fail ELSE Ok(JStr(Slice(s, i + 1, j - 1)), j + 1)

ParseString(s, i) == StringUpTo(s, i, FindFrom(s, "\"", i + 1))

\* after an element: "," and the next element, or "]"
ElemNext(s, acc, j) ==
    IF Char(s, j) = "," THEN ParseElems(s, SkipWs(s, j + 1), acc)
    ELSE IF Char(s, j) = "]" THEN Ok(JList(acc), j + 1)
    ELSE Fail

ElemParsed(s, acc, e) ==
    IF ~e.ok THEN Fail ELSE ElemNext(s, Append(acc, e.val), SkipWs(s, e.next))

\* the elements of a list from i on; acc holds those before i
ParseElems(s, i, acc) == ElemParsed(s, acc, ParseValue(s, i))

\* after a member: "," and the next member, or "}"
MemberNext(s, acc, j) ==
    IF Char(s, j) = "," THEN ParseMembers(s, SkipWs(s, j + 1), acc)
    ELSE IF Char(s, j) = "}" THEN Ok(JObj(acc), j + 1)
    ELSE Fail

\* a repeated key keeps its last value
MemberValue(s, acc, key, e) ==
    IF ~e.ok THEN Fail ELSE MemberNext(s, (key :> e.val) @@ acc, SkipWs(s, e.next))

MemberColon(s, acc, key, c) ==
    IF Char(s, c) # ":" THEN Fail
    ELSE MemberValue(s, acc, key, ParseValue(s, SkipWs(s, c + 1)))

MemberKey(s, acc, key) ==
    IF ~key.ok THEN Fail ELSE MemberColon(s, acc, key.val.v, SkipWs(s, key.next))

\* the members of an object from i on; acc holds those before i
ParseMembers(s, i, acc) ==
    IF Char(s, i) # "\"" THEN Fail ELSE MemberKey(s, acc, ParseString(s, i))

ListFrom(s, j) ==
    IF Char(s, j) = "]" THEN Ok(JList(<<>>), j + 1) ELSE ParseElems(s, j, <<>>)

ObjectFrom(s, j) ==
    IF Char(s, j) = "}" THEN Ok(EmptyDict, j + 1) ELSE ParseMembers(s, j, EmptyDict.v)

NumberUpTo(s, i, j) == Ok(JNum(Slice(s, i, j - 1)), j)

\* the value that starts at i with character c
ValueAt(s, i, c) ==
    IF c = "\"" THEN ParseString(s, i)
    ELSE IF IsDigit(c) THEN NumberUpTo(s, i, DigitsEnd(s, i))
    ELSE IF Slice(s, i, i + 3) = "null" THEN Ok(None, i + 4)
    ELSE IF Slice(s, i, i + 3) = "true" THEN Ok(JBool("True"), i + 4)
    ELSE IF Slice(s, i, i + 4) = "false" THEN Ok(JBool("False"), i + 5)
    ELSE IF c = "[" THEN ListFrom(s, SkipWs(s, i + 1))
    ELSE IF c = "{" THEN ObjectFrom(s, SkipWs(s, i + 1))
    ELSE Fail

ParseValue(s, i) == ValueAt(s, i, Char(s, i))

\* one value and nothing after it
Loaded(s, e) ==
    IF e.ok /\ SkipWs(s, e.next) = Len(s) + 1
    THEN [ok |-> TRUE, val |-> e.val]
    ELSE [ok |-> FALSE, val |-> None]

\* json.loads(s): [ok, val]; ok is FALSE where json.loads raises
json_loads(s) == Loaded(s, ParseValue(s, SkipWs(s, 1)))

\* the first "{" at a up to the last "}" at b ("" when there is no match)
BracesBetween(text, a, b) == IF a # 0 /\ b > a THEN Slice(text, a, b) ELSE ""

\* re.search(r"\{.*\}", text, re.DOTALL)
SearchBraces(text) ==
    BracesBetween(text, FindFrom(text, "{", 1), FindLast(text, "}", Len(text)))

\* the message of the decoder's exception
DecodeErrorText == "Expecting value"

\* json.loads(m.group(0)), or its exception
ParseExtractedLoaded(part) ==
    IF part.ok THEN [obj |-> part.val, err |-> ""]
    ELSE [obj |-> None, err |-> "Failed to parse extracted JSON: " \o DecodeErrorText]

\* the except branch: the first {...} block m
ParseExtracted(m) ==
    IF m = "" THEN [obj |-> None, err |-> "No JSON object found in response."]
    ELSE ParseExtractedLoaded(json_loads(m))

\* the try branch: json.loads(text), or its exception
ParseWhole(text, whole) ==
    IF whole.ok THEN [obj |-> whole.val, err |-> ""]
    ELSE ParseExtracted(SearchBraces(text))

ParseStripped(text) == ParseWhole(text, json_loads(text))

\* parse_agent_json(text): (obj, error_message)
parse_agent_json(text) == ParseStripped(Strip(text))

----------------------------------------------------------------------------
(* The tool table and the tool functions.  What a tool function does with  *)
(* the file system or a subprocess is the environment's choice among the   *)
(* outcomes its code can produce.                                          *)

\* a tool function's outcome: the text it returns, or the exception it raises
Return(text) == [raises |-> FALSE, exc |-> "", text |-> text]
Raise(exc, msg) == [raises |-> TRUE, exc |-> exc, text |-> msg]

\* TOOLS: name -> the parameters of the tool's function, none with a default
TOOLS ==
    [calc |-> {"expression"},
     read_file |-> {"path"},
     write_file |-> {"path", "content"},
     run_shell |-> {"cmd"}]

\* a listing that drops the last tool of the table
ToolNamesShort == <<"calc", "read_file", "write_file">>

\* list(TOOLS.keys()), in the order of the table
ToolNames == <<"calc", "read_file", "write_file", "run_shell">>

\* name in TOOLS, for a hashable name
Registered(nm) == IsStr(nm) /\ nm.v \in DOMAIN TOOLS

CalcChars == {"0", "1", "2", "3", "4", "5", "6", "7", "8", "9",
              "+", "-", "*", "/", "(", ")", ".", " ", "\n", "\t"}

\* re.fullmatch(r"[0-9+\-*/().\s]+", expression)
CalcAllowed(e) == Len(e) > 0 /\ \A i \in 1..Len(e) : Char(e, i) \in CalcChars

\* tool_calc: the value of eval is not computed; it is a number's text, or
\* eval raises and the tool returns the error text
tool_calc(a) ==
    IF ~IsStr(a["expression"]) THEN {Raise("TypeError", "expected string or bytes-like object")}
    ELSE IF ~CalcAllowed(a["expression"].v) THEN {Return("ERROR: expression contains invalid characters")}
    ELSE {Return("53"), Return("ERROR: division by zero")}

\* tool_read_file: the file is missing, cannot be opened, or holds some text
tool_read_file(a) ==
    IF ~IsStr(a["path"]) THEN {Raise("TypeError", "stat: path should be string")}
    ELSE {Return("ERROR: file does not exist"),
          Raise("PermissionError", "Permission denied"),
          Return("hello from the agent"),
          Return("ERRORS: 0")}

\* tool_write_file
tool_write_file(a) ==
    IF ~IsStr(a["path"]) \/ ~IsStr(a["content"])
    THEN {Raise("TypeError", "expected str")}
    ELSE {Return("OK: wrote " \o ToString(Len(a["content"].v)) \o " bytes to " \o a["path"].v),
          Raise("PermissionError", "Permission denied")}

UpperLetters == "ABCDEFGHIJKLMNOPQRSTUVWXYZ"
LowerLetters == "abcdefghijklmnopqrstuvwxyz"

RECURSIVE Lower(_)
\* str.lower
LowerAt(c, i) == IF i = 0 THEN c ELSE Char(LowerLetters, i)

LowerChar(c) == LowerAt(c, FindFrom(UpperLetters, c, 1))

Lower(s) == IF s = "" THEN "" ELSE LowerChar(Char(s, 1)) \o Lower(Slice(s, 2, Len(s)))

\* sub in s
Contains(s, sub) == \E i \in 1..Len(s) : Slice(s, i, i + Len(sub) - 1) = sub

Banned == {"rm -rf", ":(){", "mkfs", "dd ", "shutdown", "reboot"}

\* tool_run_shell: blocked by the policy; else the command fails to start,
\* prints nothing, or prints some text
tool_run_shell(a) ==
    IF ~IsStr(a["cmd"]) THEN {Raise("AttributeError", "object has no attribute 'lower'")}
    ELSE IF \E b \in Banned : Contains(Lower(a["cmd"].v), b)
    THEN {Return("ERROR: command blocked by safety policy")}
    ELSE {Return("ERROR: No such file or directory"),
          Return("(no output, exit=0)"),
          Return("out")}

\* the outcomes of TOOLS[nm].fn called with the bound arguments a
ToolBody(nm, a) ==
    CASE nm = "calc" -> tool_calc(a)
      [] nm = "read_file" -> tool_read_file(a)
      [] nm = "write_file" -> tool_write_file(a)
      [] nm = "run_shell" -> tool_run_shell(a)

\* fn(**args) binds: args is a mapping whose keys are exactly the parameters
Binds(nm, ar) == IsDict(ar) /\ DOMAIN ar.v = TOOLS[nm]

\* the outcomes of tool.fn(**args)
Call(nm, ar) ==
    IF Binds(nm, ar) THEN ToolBody(nm, ar.v)
    ELSE {Raise("TypeError", "got an unexpected or missing argument")}

\* a dispatch that passes the text of the exception on as it is
ObserveUnmarked(nm, out) == out.text

\* the try block of the dispatch: the observation for an outcome of the call
Observe(nm, out) ==
    IF ~out.raises THEN out.text
    ELSE IF out.exc = "TypeError" THEN "ERROR: bad args for tool " \o nm \o ": " \o out.text
    ELSE "ERROR: tool " \o nm \o " failed: " \o out.text

\* succeeded = not (isinstance(result, str) and result.startswith("ERROR"))
Succeeded(res) == ~StartsWith(res, "ERROR")

\* a cursor that advances without looking at the plan length
AdvanceUncapped(ok, cs, p) == IF ok THEN cs + 1 ELSE cs

\* the cursor after a dispatch
Advance(ok, cs, p) == IF ok /\ cs < Len(p) THEN cs + 1 ELSE cs

----------------------------------------------------------------------------
(* The plan.                                                               *)

\* format_plan: its first loop iteration calls lines.apend, which a list
\* does not have, so it returns only for the empty plan
format_plan(p, cs) ==
    IF Len(p) > 0 THEN Raise("AttributeError", "'list' object has no attribute 'apend'")
    ELSE Return("(empty plan)")

\* isinstance(steps_list, list) and all(isinstance(x, str) for x in steps_list)
StepsValid(sl) == IsList(sl) /\ \A i \in 1..Len(sl.v) : IsStr(sl.v[i])

NonEmpty(x) == x # ""

\* [s.strip() for s in steps_list if s.strip()]
TrimmedSteps(sl) == SelectSeq([i \in 1..Len(sl.v) |-> Strip(sl.v[i].v)], NonEmpty)

----------------------------------------------------------------------------
(* The run: run_agent(task, model, max_steps).                             *)

\* The texts the model gateway returns.
Responses ==
    {"not json at all",
     "42",
     "null",
     "[1]",
     "{\"type\":}",
     "{}",
     "{\"type\":\"bogus\"}",
     "{\"type\":\"plan\",\"steps\":[\" a \",\" \"]}",
     "{\"type\":\"replan\",\"steps\":[]}",
     "{\"type\":\"plan\",\"steps\":\"a\"}",
     "{\"type\":\"final\",\"answer\":\"53\"}",
     "Sure: {\"type\":\"final\"} done",
     "{\"type\":\"tool\",\"name\":\"calc\",\"args\":{\"expression\":\"(17*3)+2\"}}",
     "{\"type\":\"tool\",\"name\":\"read_file\",\"args\":{\"path\":\"f\"}}",
     "{\"type\":\"tool\",\"name\":\"calc\"}",
     "{\"type\":\"tool\",\"name\":\"nope\"}",
     "{\"type\":\"tool\",\"name\":[\"calc\"]}"}

VARIABLES
    max_steps,      \* the step budget of the run
    step,           \* the loop iterations begun
    plan,           \* the plan: a sequence of step texts
    current_step,   \* the plan cursor
    messages,       \* the message history
    raw,            \* the local raw: the last response of the gateway
    name,           \* the local name: the tool name of the last tool directive
    args,           \* the local args: the arguments of the last tool directive
    bound,          \* the locals among raw, name, args that are bound
    status,         \* "running", "returned" or "raised"
    result,         \* the value run_agent returned
    error,          \* the exception that left run_agent
    branch,         \* the path the last iteration took through the loop body
    gateway_calls,  \* the calls of ollama_chat made
    responses,      \* the texts ollama_chat returned, in order
    invocations     \* the calls of tool functions made: [step, name, args, out]

\* a call of parse_agent_json on its own
VARIABLES
    text,           \* the argument of parse_agent_json
    embedded,       \* the directive object written into text, "" when none was
    parsed          \* [called, obj, err]: the pair parse_agent_json returned

\* an MCPHttpClient (src/src/mcp_http.py) and the backend it talks to
VARIABLES
    session_id,     \* self.session_id: None or the stored token
    posts,          \* the calls of _post_jsonrpc made
    request,        \* the last request sent: [id, method, headers]
    response,       \* the last response received: [status, headers, body]
    outcome,        \* what the last call of _post_jsonrpc ended with
    issued          \* the token the backend issued last, None before the first

\* an MCPStdioClient (src/src/mcp_stdio_client.py), the coroutines called
\* on it and the server sessions it opened
VARIABLES
    session,        \* self.session: 0 for None, else the number of the ClientSession
    stack,          \* self._stack: the contexts entered and not yet closed
    calls,          \* the coroutines called so far: [op, pc, sess, at]
    handshake       \* for each ClientSession, how far its initialize() has come

run_vars == <<max_steps, step, plan, current_step, messages, raw, name, args, bound,
              status, result, error, branch, gateway_calls, responses, invocations>>

parser_vars == <<text, embedded, parsed>>

http_vars == <<session_id, posts, request, response, outcome, issued>>

stdio_vars == <<session, stack, calls, handshake>>

vars == <<run_vars, parser_vars, http_vars, stdio_vars>>

\* the variables a run of run_agent leaves alone
beside_run == <<parser_vars, http_vars, stdio_vars>>

\* MCPStdioClient.__init__: an empty exit stack and no session
StdioInit ==
    /\ session = 0
    /\ stack = <<>>
    /\ calls = <<>>
    /\ handshake = <<>>

\* a dict of headers
NoHeaders == [h \in {} |-> ""]

\* how a call of _post_jsonrpc ends: it returns a value or raises
NoOutcome == [state |-> "none", value |-> None, exc |-> "", msg |-> ""]
HttpReturn(v) == [state |-> "returned", value |-> v, exc |-> "", msg |-> ""]
HttpRaise(exc, msg) == [state |-> "raised", value |-> None, exc |-> exc, msg |-> msg]

\* MCPHttpClient.__init__: no session yet, nothing sent
HttpInit ==
    /\ session_id = None
    /\ posts = 0
    /\ request = [id |-> "", method |-> "", headers |-> NoHeaders]
    /\ response = [status |-> 0, headers |-> NoHeaders, body |-> <<>>]
    /\ outcome = NoOutcome
    /\ issued = None

\* no call of parse_agent_json on its own is under way
ParserAtRest ==
    /\ text = ""
    /\ embedded = ""
    /\ parsed = [called |-> FALSE, obj |-> None, err |-> ""]

Msg(role, content) == [role |-> role, content |-> content]

\* the system prompt and the tool manifest, cut to their first words
SYSTEM == "You are a tiny tool-using agent."

RunInit ==
    /\ max_steps \in 1..MaxSteps
    /\ step = 0
    /\ plan = <<>>
    /\ current_step = 0
    /\ messages = <<Msg("system", SYSTEM),
                    Msg("user", "Available tools:\n[calc, read_file, write_file, run_shell]"),
                    Msg("user", "Task: task")>>
    /\ raw = ""
    /\ name = None
    /\ args = None
    /\ bound = {}
    /\ status = "running"
    /\ result = None
    /\ error = ""
    /\ branch = "start"
    /\ gateway_calls = 0
    /\ responses = <<>>
    /\ invocations = <<>>

Init == RunInit /\ ParserAtRest /\ HttpInit /\ StdioInit

\* a loop that runs one iteration too many: range(1, max_steps + 2)
LoopingOneMore == status = "running" /\ step < max_steps + 1

\* for step in range(1, max_steps + 1): another iteration begins
Looping == status = "running" /\ step < max_steps

\* the plan-status message is built: format_plan is called for a plan that is
\* not empty
PlanStatus ==
    IF plan # <<>>
    THEN "Current plan (arrow is current step):\n" \o format_plan(plan, current_step).text
    ELSE "No plan exists yet. Create one."

PlanStatusRaises == plan # <<>> /\ format_plan(plan, current_step).raises

\* the history when the gateway is called
Prompted == Append(messages, Msg("user", PlanStatus))

\* raw = ollama_chat(...) returned r
Received(r) ==
    /\ raw' = r
    /\ responses' = Append(responses, r)
    /\ gateway_calls' = gateway_calls + 1
    /\ step' = step + 1

\* an exception that is swallowed: the loop goes on
RaisedAndSwallowed(exc) ==
    /\ status' = status
    /\ error' = exc
    /\ result' = result

\* an exception leaves run_agent
Raised(exc) ==
    /\ status' = "raised"
    /\ error' = exc
    /\ result' = result

\* the iteration ends in continue
Continue ==
    /\ status' = status
    /\ error' = error
    /\ result' = result

\* obj.get("type")
TypeOf(obj) == Get(obj, "type", None)

IsPlanType(t) == EqStr(t, "plan") \/ EqStr(t, "replan")

\* the messages an iteration appends after the plan-status message
Appended(assistant, user) == Prompted \o <<Msg("assistant", assistant), user>>

\* the observation res of the tool is recorded: the cursor advances on
\* success and the observation is appended
Observed(r, nm, res) ==
    /\ current_step' = Advance(Succeeded(res), current_step, plan)
    /\ messages' = Appended(r, Msg("user", "Observation from tool " \o nm \o ": " \o res))

\* lines 238-256: TOOLS[nm].fn(**ar) is called and ends with outcome out
Dispatch(r, nm, ar, out) ==
    /\ invocations' = Append(invocations,
           [step |-> step + 1, name |-> nm, args |-> ar, out |-> out])
    /\ Observed(r, nm, Observe(nm, out))
    /\ plan' = plan

\* repr(name) of a hashable name
Repr(x) == IF IsStr(x) THEN "'" \o x.v \o "'" ELSE x.v

RECURSIVE ReprNames(_)
ReprNames(q) ==
    IF q = <<>> THEN ""
    ELSE "'" \o Head(q) \o "'" \o (IF Len(q) > 1 THEN ", " ELSE "") \o ReprNames(Tail(q))

\* str(list(TOOLS.keys()))
ToolList == "[" \o ReprNames(ToolNames) \o "]"

(* One action for each path through an iteration of the loop.  In each,    *)
(* r is the text the gateway returned and p is parse_agent_json(r).        *)

\* format_plan raises while the plan-status message is built
TurnFormatPlanRaises ==
    /\ Looping
    /\ PlanStatusRaises
    /\ step' = step + 1
    /\ Raised(format_plan(plan, current_step).exc)
    /\ branch' = "format_plan_raised"
    /\ UNCHANGED <<max_steps, plan, current_step, messages, raw, name, args, bound,
                   gateway_calls, responses, invocations>>
    /\ UNCHANGED beside_run

\* ollama_chat raises: the request fails or the reply has no message
TurnGatewayRaises ==
    /\ Looping
    /\ ~PlanStatusRaises
    /\ messages' = Prompted
    /\ gateway_calls' = gateway_calls + 1
    /\ step' = step + 1
    /\ Raised("GatewayError")
    /\ branch' = "gateway_raised"
    /\ UNCHANGED <<max_steps, plan, current_step, raw, name, args, bound,
                   responses, invocations>>
    /\ UNCHANGED beside_run

\* obj is None
NoObject(r, p) ==
    /\ IsNone(p.obj)
    /\ Received(r)
    /\ messages' = Appended(r,
           Msg("user", "Your last response was invalid JSON. Error: " \o p.err
                       \o ". Respond again with ONLY one JSON object."))

TurnNoObject ==
    /\ Looping
    /\ ~PlanStatusRaises
    /\ \E r \in Responses : NoObject(r, parse_agent_json(r))
    /\ bound' = bound \cup {"raw"}
    /\ Continue
    /\ branch' = "no_object"
    /\ UNCHANGED <<max_steps, plan, current_step, name, args, invocations>>
    /\ UNCHANGED beside_run

\* obj is a number, a string, a boolean or a list: obj.get raises
NotADict(r, p) ==
    /\ ~IsNone(p.obj)
    /\ ~IsDict(p.obj)
    /\ Received(r)

TurnNotADict ==
    /\ Looping
    /\ ~PlanStatusRaises
    /\ \E r \in Responses : NotADict(r, parse_agent_json(r))
    /\ messages' = Prompted
    /\ bound' = bound \cup {"raw"}
    /\ Raised("AttributeError")
    /\ branch' = "not_a_dict"
    /\ UNCHANGED <<max_steps, plan, current_step, name, args, invocations>>
    /\ UNCHANGED beside_run

\* t in ("plan", "replan") and steps is not a list of strings; the
\* correction is appended under the key "role}"
PlanRejected(r, p) ==
    /\ IsDict(p.obj)
    /\ IsPlanType(TypeOf(p.obj))
    /\ ~StepsValid(Get(p.obj, "steps", None))
    /\ Received(r)
    /\ messages' = Appended(r,
           ("role}" :> "user") @@
           ("content" :> "Plan must be {\"type\":\"plan\":\"steps\":[...strings...]}, Try again."))

TurnPlanRejected ==
    /\ Looping
    /\ ~PlanStatusRaises
    /\ \E r \in Responses : PlanRejected(r, parse_agent_json(r))
    /\ bound' = bound \cup {"raw"}
    /\ Continue
    /\ branch' = "plan_rejected"
    /\ UNCHANGED <<max_steps, plan, current_step, name, args, invocations>>
    /\ UNCHANGED beside_run

\* t in ("plan", "replan") and steps is a list of strings; the assistant
\* message holds the text "raw", not the response
PlanAccepted(r, p) ==
    /\ IsDict(p.obj)
    /\ IsPlanType(TypeOf(p.obj))
    /\ StepsValid(Get(p.obj, "steps", None))
    /\ Received(r)
    /\ plan' = TrimmedSteps(Get(p.obj, "steps", None))

TurnPlanAccepted ==
    /\ Looping
    /\ ~PlanStatusRaises
    /\ \E r \in Responses : PlanAccepted(r, parse_agent_json(r))
    /\ current_step' = 0
    /\ messages' = Appended("raw",
           Msg("user", "No plan exists. You MUST respond with {\"type\":\"plan\":,\"steps\":[...]}."))
    /\ bound' = bound \cup {"raw"}
    /\ Continue
    /\ branch' = "plan_accepted"
    /\ UNCHANGED <<max_steps, name, args, invocations>>
    /\ UNCHANGED beside_run

\* an answer without its default: obj.get("answer")
FinalAnswerNoDefault(obj) == Get(obj, "answer", None)

\* obj.get("answer", "")
FinalAnswer(obj) == Get(obj, "answer", JStr(""))

\* t == "final"
Final(r, p) ==
    /\ IsDict(p.obj)
    /\ EqStr(TypeOf(p.obj), "final")
    /\ Received(r)
    /\ result' = FinalAnswer(p.obj)

TurnFinal ==
    /\ Looping
    /\ ~PlanStatusRaises
    /\ \E r \in Responses : Final(r, parse_agent_json(r))
    /\ messages' = Prompted
    /\ bound' = bound \cup {"raw"}
    /\ status' = "returned"
    /\ error' = error
    /\ branch' = "final"
    /\ UNCHANGED <<max_steps, plan, current_step, name, args, invocations>>
    /\ UNCHANGED beside_run

\* t == "tool": name = obj.get("name"); args = obj.get("args", {})
IsToolDirective(p) == IsDict(p.obj) /\ EqStr(TypeOf(p.obj), "tool")

ToolBound(r, nm, ar) ==
    /\ Received(r)
    /\ name' = nm
    /\ args' = ar

\* name is a list or a dict: name not in TOOLS raises
ToolUnhashable(r, p) ==
    /\ IsToolDirective(p)
    /\ ~Hashable(Get(p.obj, "name", None))
    /\ ToolBound(r, Get(p.obj, "name", None), Get(p.obj, "args", EmptyDict))

TurnToolUnhashable ==
    /\ Looping
    /\ ~PlanStatusRaises
    /\ \E r \in Responses : ToolUnhashable(r, parse_agent_json(r))
    /\ messages' = Prompted
    /\ bound' = bound \cup {"raw", "name", "args"}
    /\ Raised("TypeError")
    /\ branch' = "unhashable_name"
    /\ UNCHANGED <<max_steps, plan, current_step, invocations>>
    /\ UNCHANGED beside_run

\* the correction for a name that is not in TOOLS
UnknownToolText(nm) ==
    "Tool " \o Repr(nm) \o " does not exist. Choose from: " \o ToolList \o "."

\* name not in TOOLS
ToolUnknown(r, p) ==
    /\ IsToolDirective(p)
    /\ Hashable(Get(p.obj, "name", None))
    /\ ~Registered(Get(p.obj, "name", None))
    /\ ToolBound(r, Get(p.obj, "name", None), Get(p.obj, "args", EmptyDict))
    /\ messages' = Appended(r, Msg("user", UnknownToolText(Get(p.obj, "name", None))))

TurnToolUnknown ==
    /\ Looping
    /\ ~PlanStatusRaises
    /\ \E r \in Responses : ToolUnknown(r, parse_agent_json(r))
    /\ bound' = bound \cup {"raw", "name", "args"}
    /\ Continue
    /\ branch' = "unknown_tool"
    /\ UNCHANGED <<max_steps, plan, current_step, invocations>>
    /\ UNCHANGED beside_run

\* the tool nm is called with ar, with any outcome the call can have
DispatchAny(r, nm, ar) == \E out \in Call(nm, ar) : Dispatch(r, nm, ar, out)

\* name in TOOLS: the tool is dispatched
ToolDispatch(r, p) ==
    /\ IsToolDirective(p)
    /\ Registered(Get(p.obj, "name", None))
    /\ ToolBound(r, Get(p.obj, "name", None), Get(p.obj, "args", EmptyDict))
    /\ DispatchAny(r, Get(p.obj, "name", None).v, Get(p.obj, "args", EmptyDict))

TurnToolDispatch ==
    /\ Looping
    /\ ~PlanStatusRaises
    /\ \E r \in Responses : ToolDispatch(r, parse_agent_json(r))
    /\ bound' = bound \cup {"raw", "name", "args"}
    /\ Continue
    /\ branch' = "dispatched"
    /\ UNCHANGED <<max_steps>>
    /\ UNCHANGED beside_run

\* t is none of plan, replan, final, tool: control reaches tool = TOOLS[name],
\* which is outside the if t == "tool" block
FallsThrough(obj) ==
    /\ IsDict(obj)
    /\ ~IsPlanType(TypeOf(obj))
    /\ ~EqStr(TypeOf(obj), "final")
    /\ ~EqStr(TypeOf(obj), "tool")

OtherType(r, p) ==
    /\ FallsThrough(p.obj)
    /\ Received(r)

\* ... and no earlier iteration bound name
TurnOtherTypeUnbound ==
    /\ Looping
    /\ ~PlanStatusRaises
    /\ "name" \notin bound
    /\ \E r \in Responses : OtherType(r, parse_agent_json(r))
    /\ messages' = Prompted
    /\ bound' = bound \cup {"raw"}
    /\ Raised("UnboundLocalError")
    /\ branch' = "other_type_unbound"
    /\ UNCHANGED <<max_steps, plan, current_step, name, args, invocations>>
    /\ UNCHANGED beside_run

\* ... and name is still the unregistered name of an earlier iteration
TurnOtherTypeKeyError ==
    /\ Looping
    /\ ~PlanStatusRaises
    /\ "name" \in bound
    /\ ~Registered(name)
    /\ \E r \in Responses : OtherType(r, parse_agent_json(r))
    /\ messages' = Prompted
    /\ bound' = bound \cup {"raw"}
    /\ Raised("KeyError")
    /\ branch' = "other_type_key_error"
    /\ UNCHANGED <<max_steps, plan, current_step, name, args, invocations>>
    /\ UNCHANGED beside_run

\* ... and name is still the registered name of an earlier iteration: that
\* tool is dispatched again with the earlier arguments
OtherTypeDispatch(r, p) ==
    /\ OtherType(r, p)
    /\ DispatchAny(r, name.v, args)

TurnOtherTypeDispatch ==
    /\ Looping
    /\ ~PlanStatusRaises
    /\ "name" \in bound
    /\ Registered(name)
    /\ \E r \in Responses : OtherTypeDispatch(r, parse_agent_json(r))
    /\ bound' = bound \cup {"raw"}
    /\ Continue
    /\ branch' = "other_type_dispatched"
    /\ UNCHANGED <<max_steps, name, args>>
    /\ UNCHANGED beside_run

\* the return value when the budget is used up
Stopped(n) == JStr("Stopped after " \o ToString(n) \o " iterations without a final answer.")

\* the loop ends: lines 258-265
LoopExit ==
    /\ status = "running"
    /\ step = max_steps
    /\ messages' = messages \o
           <<Msg("assistant", raw),
             Msg("user", "Invalid \"type\". Use \"plan\", \"replan\", \"tool\", or \"final\".")>>
    /\ status' = "returned"
    /\ result' = Stopped(max_steps)
    /\ error' = error
    /\ branch' = "exhausted"
    /\ UNCHANGED <<max_steps, step, plan, current_step, raw, name, args, bound,
                   gateway_calls, responses, invocations>>
    /\ UNCHANGED beside_run

Next ==
    \/ TurnFormatPlanRaises
    \/ TurnGatewayRaises
    \/ TurnNoObject
    \/ TurnNotADict
    \/ TurnPlanRejected
    \/ TurnPlanAccepted
    \/ TurnFinal
    \/ TurnToolUnhashable
    \/ TurnToolUnknown
    \/ TurnToolDispatch
    \/ TurnOtherTypeUnbound
    \/ TurnOtherTypeKeyError
    \/ TurnOtherTypeDispatch
    \/ LoopExit

Spec == Init /\ [][Next]_vars

\* run_agent has not been called: its variables stay as they are
RunAtRest == RunInit /\ max_steps = 1

----------------------------------------------------------------------------
(* parse_agent_json called on its own, on texts drawn from bounded sets.   *)

\* The length of the longest text built from the alphabet.
MaxTextLen == 3

Alphabet == {"1", "[", "]", "{", "}", " "}

RECURSIVE TextsOfLen(_)
\* the texts of n characters of the alphabet
TextsOfLen(n) ==
    IF n = 0 THEN {""} ELSE {t \o c : t \in TextsOfLen(n - 1), c \in Alphabet}

ShortTexts == UNION {TextsOfLen(n) : n \in 0..MaxTextLen}

\* texts that hold a JSON scalar or list, or no JSON at all
ScalarTexts == {"42", "null", "true", "\"s\"", " [1] ", "not json at all"}

\* one object of each directive shape
Directives ==
    {"{\"type\":\"plan\",\"steps\":[\"a\"]}",
     "{\"type\":\"replan\",\"steps\":[]}",
     "{\"type\":\"tool\",\"name\":\"calc\",\"args\":{\"expression\":\"1\"}}",
     "{\"type\":\"final\",\"answer\":\"53\"}"}

\* the prose a model writes before and after the object
ProseBefore == {"", "Sure: ", "ok } "}
ProseAfter == {"", " done", "\n", " :-}", " { ", " or {\"type\":\"final\"}"}

ParserInit ==
    /\ \/ text \in ShortTexts \cup ScalarTexts /\ embedded = ""
       \/ \E pre \in ProseBefore, d \in Directives, post \in ProseAfter :
             text = pre \o d \o post /\ embedded = d
    /\ parsed = [called |-> FALSE, obj |-> None, err |-> ""]

\* parse_agent_json returned the pair p
ParserReturned(p) == parsed' = [called |-> TRUE, obj |-> p.obj, err |-> p.err]

\* obj, err = parse_agent_json(text)
CallParseAgentJson ==
    /\ ~parsed.called
    /\ ParserReturned(parse_agent_json(text))
    /\ UNCHANGED <<text, embedded>>
    /\ UNCHANGED <<run_vars, http_vars, stdio_vars>>

ParserNext == CallParseAgentJson

\* a text is chosen and run_agent is not running
ParserStart == ParserInit /\ RunAtRest /\ HttpInit /\ StdioInit

SpecParser == ParserStart /\ [][ParserNext]_vars

----------------------------------------------------------------------------
(* MCPHttpClient (src/src/mcp_http.py): _post_jsonrpc, which intialization, *)
(* list_tools and call_tool all go through, and the SSE reader.  The        *)
(* session-wide headers (Accept, Content-Type, Authorization) are the same  *)
(* on every request and are left out of the request record.                 *)

\* The calls of _post_jsonrpc a client makes.
MaxPosts == 3

\* the methods of intialization, list_tools and call_tool
Methods == {"initialization", "tools/list", "tools/call"}

\* msg_id = str(uuid.uuid4()): the id of the n-th call, fresh for each
MsgId(n) == "id" \o ToString(n)

\* headers.get(nm)
HeaderGet(h, nm) == IF nm \in DOMAIN h THEN JStr(h[nm]) ELSE None

\* the truth value of an Optional[str]
Truthy(x) == IsStr(x) /\ x.v # ""

\* headers = {}; if self.session_id: headers["Mcp-Session-Id"] = ...
RequestHeaders(sid) == IF Truthy(sid) THEN "Mcp-Session-Id" :> sid.v ELSE NoHeaders

\* a client that keeps the first session id it was given
StoredSessionOnce(h, cur) ==
    IF Truthy(HeaderGet(h, "Mcp-Session-Id")) /\ IsNone(cur)
    THEN HeaderGet(h, "Mcp-Session-Id")
    ELSE cur

\* sid = resp.headers.get("Mcp-Session-Id"); if sid: self.session_id = sid
StoredSession(h, cur) ==
    IF Truthy(HeaderGet(h, "Mcp-Session-Id")) THEN HeaderGet(h, "Mcp-Session-Id") ELSE cur

\* ctype = (resp.headers.get("Content-Type") or "").lower()
ContentType(h) == IF "Content-Type" \in DOMAIN h THEN Lower(h["Content-Type"]) ELSE ""

IsJsonType(h) == Contains(ContentType(h), "application/json")

IsEventStreamType(h) == ~IsJsonType(h) /\ Contains(ContentType(h), "text/event-stream")

RECURSIVE Joined(_)
\* the body as one text: its lines joined by newlines
Joined(lines) ==
    IF lines = <<>> THEN ""
    ELSE IF Len(lines) = 1 THEN Head(lines)
    ELSE Head(lines) \o "\n" \o Joined(Tail(lines))

(* What the backend may answer to the request with id me.                  *)

\* a JSON-RPC message with id i and one more member
RpcText(i, member) == "{\"jsonrpc\":\"2.0\",\"id\":\"" \o i \o "\"," \o member \o "}"
ResultText(i) == RpcText(i, "\"result\":{}")
ErrorText(i) == RpcText(i, "\"error\":{\"code\":1}")

\* bodies of a single JSON payload
JsonBodies(me) == {<<ResultText(me)>>, <<ErrorText(me)>>, <<"[1]">>, <<"not json">>}

\* bodies of an event stream, line by line
StreamBodies(me) ==
    {<<": ping", "", "data: " \o ResultText("other"), "data: " \o ResultText(me)>>,
     <<"data: not json", "data: " \o ErrorText(me)>>,
     <<"event: message", "data:" \o ResultText(me), "">>,
     <<"data: " \o ResultText("other")>>,
     <<>>}

\* the Mcp-Session-Id header: absent, empty, or one of two tokens
SessionHeaders ==
    {NoHeaders, "Mcp-Session-Id" :> "", "Mcp-Session-Id" :> "s1", "Mcp-Session-Id" :> "s2"}

\* the Content-Type header
TypeHeaders ==
    {NoHeaders,
     "Content-Type" :> "application/json; charset=utf-8",
     "Content-Type" :> "Text/Event-Stream",
     "Content-Type" :> "text/html"}

\* the bodies sent under the content type of th
BodiesOf(th, me) ==
    IF th = NoHeaders THEN {<<>>}
    ELSE IF th["Content-Type"] = "text/html" THEN {<<"<html>">>}
    ELSE IF th["Content-Type"] = "Text/Event-Stream" THEN StreamBodies(me)
    ELSE JsonBodies(me)

\* a response with status st, headers sh and th, and body b
Response(st, sh, th, b) == [status |-> st, headers |-> sh @@ th, body |-> b]

\* lines 34-48: the request of call number posts + 1 is sent
Sent(m) ==
    /\ posts < MaxPosts
    /\ posts' = posts + 1
    /\ request' = [id |-> MsgId(posts + 1), method |-> m,
                   headers |-> RequestHeaders(session_id)]

\* the backend answers with resp.  A response that answers the request
\* (no error status) and carries a token that is not empty issues it.
Answered(resp) ==
    /\ response' = resp
    /\ issued' = IF resp.status < 400 /\ Truthy(HeaderGet(resp.headers, "Mcp-Session-Id"))
                 THEN HeaderGet(resp.headers, "Mcp-Session-Id")
                 ELSE issued

\* self._session.post raises: no connection, or the timeout passes
PostFails ==
    /\ \E m \in Methods : Sent(m)
    /\ response' = [status |-> 0, headers |-> NoHeaders, body |-> <<>>]
    /\ outcome' = HttpRaise("ConnectionError", "")
    /\ UNCHANGED <<session_id, issued>>
    /\ UNCHANGED <<run_vars, parser_vars, stdio_vars>>

\* resp.raise_for_status() raises
HttpError(m, resp) ==
    /\ resp.status >= 400
    /\ Sent(m)
    /\ Answered(resp)

PostHttpError ==
    /\ \E sh \in SessionHeaders, m \in Methods : HttpError(m, Response(500, sh, NoHeaders, <<>>))
    /\ outcome' = HttpRaise("HTTPError", "")
    /\ UNCHANGED session_id
    /\ UNCHANGED <<run_vars, parser_vars, stdio_vars>>

\* lines 49-54: the status is no error and the session id is stored
Accepted(m, resp) ==
    /\ resp.status < 400
    /\ Sent(m)
    /\ Answered(resp)
    /\ session_id' = StoredSession(resp.headers, session_id)

\* the status is no error, whatever the session header and the method are
AcceptedAny(th, b) ==
    \E sh \in SessionHeaders, m \in Methods : Accepted(m, Response(200, sh, th, b))

\* data = resp.json(); if "error" in data: raise ...; return data
JsonOutcome(d) ==
    IF ~d.ok THEN HttpRaise("JSONDecodeError", DecodeErrorText)
    ELSE IF IsDict(d.val)
    THEN IF "error" \in DOMAIN d.val.v
         THEN HttpRaise("RuntimeError", "MCP error: ")
         ELSE HttpReturn(d.val)
    ELSE IF IsList(d.val)
    THEN IF \E i \in DOMAIN d.val.v : EqStr(d.val.v[i], "error")
         THEN HttpRaise("TypeError", "list indices must be integers")
         ELSE HttpReturn(d.val)
    ELSE IF IsStr(d.val)
    THEN IF Contains(d.val.v, "error")
         THEN HttpRaise("TypeError", "string indices must be integers")
         ELSE HttpReturn(d.val)
    ELSE HttpRaise("TypeError", "argument is not iterable")

JsonPayload(th, b, out) ==
    /\ AcceptedAny(th, b)
    /\ outcome' = out

JsonPayloads(th, me) ==
    \E b \in BodiesOf(th, me) : JsonPayload(th, b, JsonOutcome(json_loads(Joined(b))))

\* "application/json" in ctype
PostJson ==
    /\ \E th \in TypeHeaders : IsJsonType(th) /\ JsonPayloads(th, MsgId(posts + 1))
    /\ UNCHANGED <<run_vars, parser_vars, stdio_vars>>

EventStreams(th, me) == \E b \in BodiesOf(th, me) : AcceptedAny(th, b)

\* "text/event-stream" in ctype: line 68 calls self._read_sse_for_response,
\* a method the class does not have (it defines _reead_sse_for_response)
PostEventStream ==
    /\ \E th \in TypeHeaders : IsEventStreamType(th) /\ EventStreams(th, MsgId(posts + 1))
    /\ outcome' = HttpRaise("AttributeError",
           "'MCPHttpClient' object has no attribute '_read_sse_for_response'")
    /\ UNCHANGED <<run_vars, parser_vars, stdio_vars>>

UnexpectedType(th, ctype, me) ==
    /\ \E b \in BodiesOf(th, me) : AcceptedAny(th, b)
    /\ outcome' = HttpRaise("RuntimeError", "Unexpected Content-Type from MCP server: " \o ctype)

\* any other content type
PostUnexpectedType ==
    /\ \E th \in TypeHeaders :
          /\ ~IsJsonType(th)
          /\ ~IsEventStreamType(th)
          /\ UnexpectedType(th, ContentType(th), MsgId(posts + 1))
    /\ UNCHANGED <<run_vars, parser_vars, stdio_vars>>

RECURSIVE _reead_sse_for_response(_, _)

\* lines 86-89: the event evt of the first line of lines
SseEvent(expected_id, lines, evt) ==
    IF /\ evt.ok
       /\ IsDict(evt.val)
       /\ EqStr(Get(evt.val, "jsonrpc", None), "2.0")
       /\ EqStr(Get(evt.val, "id", None), expected_id)
    THEN IF "error" \in DOMAIN evt.val.v
         THEN HttpRaise("RuntimeError", "MCP error: ")
         ELSE HttpReturn(evt.val)
    ELSE _reead_sse_for_response(expected_id, Tail(lines))

\* lines 77-85: data_str = line[len("data"):].strip(), which keeps the ":"
SseLine(expected_id, lines, line) ==
    IF ~StartsWith(line, "data:") THEN _reead_sse_for_response(expected_id, Tail(lines))
    ELSE SseEvent(expected_id, lines,
                  json_loads(Strip(Slice(line, Len("data") + 1, Len(line)))))

\* _reead_sse_for_response(expected_id, resp), resp.iter_lines() being lines
_reead_sse_for_response(expected_id, lines) ==
    IF lines = <<>>
    THEN HttpRaise("RuntimeError",
                   "SSE stream ended before receiving expected JSON-RPC response")
    ELSE IF Head(lines) = "" THEN _reead_sse_for_response(expected_id, Tail(lines))
    ELSE SseLine(expected_id, lines, Strip(Head(lines)))

\* a caller reads the stream of the last response by the name the method has
ReeadSseDirectly ==
    /\ outcome.exc = "AttributeError"
    /\ outcome' = _reead_sse_for_response(request.id, response.body)
    /\ UNCHANGED <<session_id, posts, request, response, issued>>
    /\ UNCHANGED <<run_vars, parser_vars, stdio_vars>>

HttpNext ==
    \/ PostFails
    \/ PostHttpError
    \/ PostJson
    \/ PostEventStream
    \/ PostUnexpectedType
    \/ ReeadSseDirectly

\* a client is constructed; run_agent and the parser are not running
HttpStart == HttpInit /\ RunAtRest /\ ParserAtRest /\ StdioInit

SpecHttp == HttpStart /\ [][HttpNext]_vars

----------------------------------------------------------------------------
(* MCPStdioClient (src/src/mcp_stdio_client.py).  start, close, list_tools  *)
(* and call_tool are coroutines on one event loop: a coroutine runs from    *)
(* one await to the next without a break, and other coroutines run while    *)
(* it waits.  A call is [op, pc, sess, at]: the method, where it stands,    *)
(* the ClientSession it works on (0: none), and, for list_tools and         *)
(* call_tool, how far the handshake of self.session had come when the       *)
(* call was made.                                                           *)

\* The coroutines called on one client.
MaxCalls == 3

\* list_tools and call_tool: the same guard, the same forwarding
Requests == {"list_tools", "call_tool"}

\* the coroutine op is called and runs up to pc
Began(op, pc, sess, at) ==
    /\ Len(calls) < MaxCalls
    /\ calls' = Append(calls, [op |-> op, pc |-> pc, sess |-> sess, at |-> at])

\* call i is the coroutine op waiting at pc
Waiting(i, op, pc) == calls[i].op = op /\ calls[i].pc = pc

\* call i goes on to pc
Moved(i, pc) == calls' = [calls EXCEPT ![i].pc = pc]

\* start() is called: it runs up to the await of stdio_client (line 73)
StartCalled ==
    /\ Began("start", "spawning", 0, "")
    /\ UNCHANGED <<session, stack, handshake>>
    /\ UNCHANGED <<run_vars, parser_vars, http_vars>>

\* the server process is spawned; start() awaits the ClientSession (line 76)
StartSpawned ==
    /\ \E i \in DOMAIN calls : Waiting(i, "start", "spawning") /\ Moved(i, "entering")
    /\ stack' = Append(stack, "stdio_client")
    /\ UNCHANGED <<session, handshake>>
    /\ UNCHANGED <<run_vars, parser_vars, http_vars>>

\* entering one of the two contexts raises: start() raises with it
StartContextFails ==
    /\ \E i \in DOMAIN calls :
          /\ Waiting(i, "start", "spawning") \/ Waiting(i, "start", "entering")
          /\ Moved(i, "raised")
    /\ UNCHANGED <<session, stack, handshake>>
    /\ UNCHANGED <<run_vars, parser_vars, http_vars>>

\* call i has its ClientSession, number n: self.session is set (line 76) and
\* initialize() is awaited (line 79)
SessionAssigned(i, n) ==
    /\ session' = n
    /\ handshake' = Append(handshake, "pending")
    /\ calls' = [calls EXCEPT ![i].pc = "initializing", ![i].sess = n]

StartEntered ==
    /\ \E i \in DOMAIN calls :
          Waiting(i, "start", "entering") /\ SessionAssigned(i, Len(handshake) + 1)
    /\ stack' = Append(stack, "ClientSession")
    /\ UNCHANGED <<run_vars, parser_vars, http_vars>>

\* the handshake of call i ends as how: start() returns or raises
HandshakeEnded(i, how, pc) ==
    /\ Waiting(i, "start", "initializing")
    /\ handshake' = [handshake EXCEPT ![calls[i].sess] = how]
    /\ Moved(i, pc)

\* session.initialize() returns
StartInitialized ==
    /\ \E i \in DOMAIN calls : HandshakeEnded(i, "done", "returned")
    /\ UNCHANGED <<session, stack>>
    /\ UNCHANGED <<run_vars, parser_vars, http_vars>>

\* session.initialize() raises
StartHandshakeFails ==
    /\ \E i \in DOMAIN calls : HandshakeEnded(i, "failed", "raised")
    /\ UNCHANGED <<session, stack>>
    /\ UNCHANGED <<run_vars, parser_vars, http_vars>>

\* if not self.session
NotStarted(sess, hs) == sess = 0

\* how far the handshake of self.session has come
HandshakeNow == IF session = 0 THEN "no_session" ELSE handshake[session]

\* list_tools or call_tool is called and raises RuntimeError("MCPStdioClient
\* not started. Call await start() first.")
RequestRefused ==
    /\ NotStarted(session, handshake)
    /\ \E op \in Requests : Began(op, "not_started", 0, HandshakeNow)
    /\ UNCHANGED <<session, stack, handshake>>
    /\ UNCHANGED <<run_vars, parser_vars, http_vars>>

\* list_tools or call_tool is called and forwards to self.session
RequestForwarded ==
    /\ ~NotStarted(session, handshake)
    /\ \E op \in Requests : Began(op, "awaiting", session, HandshakeNow)
    /\ UNCHANGED <<session, stack, handshake>>
    /\ UNCHANGED <<run_vars, parser_vars, http_vars>>

\* the session answers a forwarded request, or raises
RequestAnswered ==
    /\ \E i \in DOMAIN calls, pc \in {"returned", "raised"} :
          /\ calls[i].op \in Requests
          /\ calls[i].pc = "awaiting"
          /\ Moved(i, pc)
    /\ UNCHANGED <<session, stack, handshake>>
    /\ UNCHANGED <<run_vars, parser_vars, http_vars>>

\* close() is called: it awaits self._stack.aclose() (line 85)
CloseCalled ==
    /\ Began("close", "closing", 0, "")
    /\ UNCHANGED <<session, stack, handshake>>
    /\ UNCHANGED <<run_vars, parser_vars, http_vars>>

\* the contexts are closed; self.session is left as it is
CloseDone ==
    /\ \E i \in DOMAIN calls, pc \in {"returned", "raised"} :
          Waiting(i, "close", "closing") /\ Moved(i, pc)
    /\ stack' = <<>>
    /\ UNCHANGED <<session, handshake>>
    /\ UNCHANGED <<run_vars, parser_vars, http_vars>>

StdioNext ==
    \/ StartCalled
    \/ StartSpawned
    \/ StartContextFails
    \/ StartEntered
    \/ StartInitialized
    \/ StartHandshakeFails
    \/ RequestRefused
    \/ RequestForwarded
    \/ RequestAnswered
    \/ CloseCalled
    \/ CloseDone

\* a client is constructed; run_agent, the parser and the HTTP client rest
StdioStart == StdioInit /\ RunAtRest /\ ParserAtRest /\ HttpInit

SpecStdio == StdioStart /\ [][StdioNext]_vars

----------------------------------------------------------------------------
(* The directives of the protocol, as the responses of the model are read. *)

\* the kind of directive a parsed response holds
DirectiveKind(p) ==
    IF ~IsDict(p.obj) THEN "no_object"
    ELSE IF IsPlanType(TypeOf(p.obj)) THEN "plan"
    ELSE IF EqStr(TypeOf(p.obj), "final") THEN "final"
    ELSE IF EqStr(TypeOf(p.obj), "tool") THEN "tool"
    ELSE "other_type"

Parsed == [r \in Responses |-> parse_agent_json(r)]
KindOf == [r \in Responses |-> DirectiveKind(Parsed[r])]

\* responses with no JSON object in them
NoObjectTexts == {r \in Responses : KindOf[r] = "no_object"}
\* objects whose type is missing or is none of plan, replan, tool, final
OtherTypeTexts == {r \in Responses : KindOf[r] = "other_type"}
\* Final directives
FinalTexts == {r \in Responses : KindOf[r] = "final"}
\* Plan and Replan directives whose steps are a list of strings
PlanTexts ==
    {r \in Responses : KindOf[r] = "plan" /\ StepsValid(Get(Parsed[r].obj, "steps", None))}
\* Tool directives: the name is a string
ToolTexts == {r \in Responses : KindOf[r] = "tool" /\ IsStr(Get(Parsed[r].obj, "name", None))}
\* Tool directives that name a tool of the table
KnownToolTexts == {r \in ToolTexts : Parsed[r].obj.v["name"].v \in DOMAIN TOOLS}
\* Tool directives that name no tool of the table
UnknownToolTexts == ToolTexts \ KnownToolTexts

\* this step is a turn in which the gateway returned a text of set S
TurnWith(S) ==
    /\ Len(responses') = Len(responses) + 1
    /\ responses'[Len(responses')] \in S

\* the last text the gateway returned is of set S
LastIn(S) == responses # <<>> /\ responses[Len(responses)] \in S

IsUserMsg(m) == "role" \in DOMAIN m /\ m["role"] = "user" /\ "content" \in DOMAIN m

\* this step appends an assistant message and then one user message to the
\* history the gateway saw
AppendsCorrection ==
    /\ Len(messages') = Len(messages) + 3
    /\ IsUserMsg(messages'[Len(messages')])

\* this step invokes no tool and leaves the plan and the cursor alone
NoToolNoPlanChange ==
    /\ invocations' = invocations
    /\ plan' = plan
    /\ current_step' = current_step

GatewayFailed == error = "GatewayError"

----------------------------------------------------------------------------
(* The properties.                                                         *)

\* C1: unless the gateway fails, no exception leaves run_agent: a run that
\* has ended has returned, the answer of a Final directive or the
\* exhaustion text.
C1_NoExceptionEscapes ==
    /\ status = "raised" => GatewayFailed
    /\ status = "returned" => branch \in {"final", "exhausted"}

\* every text the gateway returned so far is a Tool directive
OnlyToolDirectives == \A i \in DOMAIN responses : responses[i] \in ToolTexts

\* C2: a run in which the model emits only Tool directives makes exactly
\* max_steps gateway calls, one per turn, and then returns the exhaustion
\* text that carries max_steps.
C2_ToolOnlyRunExhaustsBudget ==
    (OnlyToolDirectives /\ ~GatewayFailed) =>
        /\ status # "raised"
        /\ gateway_calls = step
        /\ step <= max_steps
        /\ status = "returned" =>
              /\ gateway_calls = max_steps
              /\ result = JStr("Stopped after " \o ToString(max_steps)
                               \o " iterations without a final answer.")

C2_Witness ==
    /\ status = "returned"
    /\ OnlyToolDirectives
    /\ max_steps >= 2
    /\ gateway_calls = max_steps
    /\ Len(invocations) >= 1

\* the answer field of a Final directive, the empty string when it is absent
AnswerOf(r) ==
    IF "answer" \in DOMAIN Parsed[r].obj.v THEN Parsed[r].obj.v["answer"] ELSE JStr("")

\* C3: the turn in which the model emits a Final directive returns its
\* answer (the empty string when there is none), invokes no tool and
\* leaves the plan and the cursor alone; after a return no gateway call is
\* made.
C3_FinalReturnsAtOnce ==
    /\ [][TurnWith(FinalTexts) =>
            /\ status' = "returned"
            /\ result' = AnswerOf(responses'[Len(responses')])
            /\ NoToolNoPlanChange]_vars
    /\ [][status = "returned" => gateway_calls' = gateway_calls]_vars

C3_Witness ==
    /\ status = "returned"
    /\ LastIn(FinalTexts)
    /\ result = JStr("")
    /\ Len(responses) >= 2
    /\ gateway_calls = Len(responses)

\* C4: a turn whose response is an object with a missing or unrecognized
\* type invokes no tool, leaves the plan and the cursor alone, appends a
\* corrective user message, and the run goes on.
C4_OtherTypeIsInvalid ==
    [][TurnWith(OtherTypeTexts) =>
          /\ NoToolNoPlanChange
          /\ AppendsCorrection
          /\ status' = "running"]_vars

\* C5: a turn whose response holds no JSON object appends a corrective user
\* message that names the parse error, invokes no tool, leaves the plan
\* and the cursor alone, and the run goes on.
C5_NoObjectIsCorrected ==
    [][TurnWith(NoObjectTexts) =>
          /\ NoToolNoPlanChange
          /\ AppendsCorrection
          /\ messages'[Len(messages')]["content"] =
                 "Your last response was invalid JSON. Error: "
                 \o Parsed[responses'[Len(responses')]].err
                 \o ". Respond again with ONLY one JSON object."
          /\ status' = "running"]_vars

\* C6: the turn that accepts a Plan or Replan directive sets the plan to the
\* trimmed non-empty steps and the cursor to 0 and does not end the run;
\* while the budget lasts, the next turn appends the plan-status message
\* and calls the gateway.
C6_PlanNeverEndsRun ==
    /\ [][TurnWith(PlanTexts) =>
            /\ plan' = TrimmedSteps(Parsed[responses'[Len(responses')]].obj.v["steps"])
            /\ current_step' = 0
            /\ status' = "running"]_vars
    /\ [][(LastIn(PlanTexts) /\ status = "running" /\ step < max_steps) =>
            /\ gateway_calls' = gateway_calls + 1
            /\ Len(messages') > Len(messages)
            /\ IsUserMsg(messages'[Len(messages) + 1])]_vars

\* C7: every turn makes exactly one gateway call and invokes at most one
\* tool function.
C7_OneCallOneToolPerTurn ==
    [][step' = step + 1 =>
          /\ gateway_calls' = gateway_calls + 1
          /\ Len(invocations') <= Len(invocations) + 1]_vars

\* C8: a turn whose Tool directive names no tool of the table invokes no
\* tool, leaves the cursor alone, appends the correction that lists the
\* names of the table and no other, and the run goes on.
C8_UnknownToolIsCorrected ==
    [][TurnWith(UnknownToolTexts) =>
          /\ invocations' = invocations
          /\ current_step' = current_step
          /\ AppendsCorrection
          /\ messages'[Len(messages')]["content"] =
                 "Tool " \o "'" \o Parsed[responses'[Len(responses')]].obj.v["name"].v \o "'"
                 \o " does not exist. Choose from: "
                 \o "['calc', 'read_file', 'write_file', 'run_shell']."
          /\ DOMAIN TOOLS = {"calc", "read_file", "write_file", "run_shell"}
          /\ status' = "running"]_vars

C8_Witness ==
    /\ LastIn(UnknownToolTexts)
    /\ branch = "unknown_tool"
    /\ status = "running"
    /\ Len(invocations) >= 1
    /\ messages[Len(messages)]["content"] =
           "Tool 'nope' does not exist. Choose from: ['calc', 'read_file', 'write_file', 'run_shell']."

\* C9: the cursor stays within 0..length of the plan, and it decreases only
\* in a turn that accepts a Plan or Replan directive.
C9_CursorWithinPlan ==
    /\ [](current_step >= 0 /\ current_step <= Len(plan))
    /\ [][current_step' < current_step => TurnWith(PlanTexts)]_vars

\* a tool returned a text that is no error while the cursor was at the end
\* of the plan, and the cursor stayed there
C9_Witness ==
    /\ LastIn(KnownToolTexts)
    /\ messages[Len(messages)]["content"] = "Observation from tool calc: 53"
    /\ current_step = Len(plan)

\* Why the case of C10 (a dispatch with the cursor below the length of the
\* plan) is never reached: once a plan holds a step, format_plan ends the
\* run in the next iteration, so every tool call is made with the cursor
\* at the end of the plan and the cursor never leaves 0.
C10_DispatchOnlyAtPlanEnd ==
    /\ [][Len(invocations') > Len(invocations) => current_step = Len(plan)]_vars
    /\ [](current_step = 0)

\* this step calls a tool function, and the call raises
ToolCallRaises ==
    /\ Len(invocations') = Len(invocations) + 1
    /\ invocations'[Len(invocations')].out.raises

\* C11: a turn in which the call of a registered tool raises (the arguments
\* do not fit the function, or the function itself fails) appends the
\* assistant message and then a user message whose observation starts with
\* ERROR, and the run goes on: no exception of a tool leaves run_agent.
C11_ToolFailureContained ==
    [][ToolCallRaises =>
          /\ status' = "running"
          /\ error' = error
          /\ AppendsCorrection
          /\ StartsWith(messages'[Len(messages')]["content"],
                        "Observation from tool " \o invocations'[Len(invocations')].name
                        \o ": ERROR: ")]_vars

\* tool calls raised for both reasons, and a later turn was made
C11_Witness ==
    /\ \E i, j \in DOMAIN invocations :
          /\ invocations[i].out.raises /\ invocations[i].out.exc = "TypeError"
          /\ invocations[j].out.raises /\ invocations[j].out.exc = "PermissionError"
          /\ invocations[i].step < step /\ invocations[j].step < step
    /\ status = "running"

\* C12: a failure of the gateway call leaves run_agent: the failing call is
\* made once, nothing is returned, and no step follows it (no tool call,
\* no gateway call, no result).
C12_GatewayFailurePropagates ==
    /\ [][GatewayFailed => UNCHANGED vars]_vars
    /\ [](GatewayFailed =>
            /\ status = "raised"
            /\ result = None
            /\ gateway_calls = Len(responses) + 1)
    /\ [][~GatewayFailed /\ GatewayFailed' =>
            /\ gateway_calls' = gateway_calls + 1
            /\ invocations' = invocations]_vars

C12_Witness ==
    /\ GatewayFailed
    /\ status = "raised"
    /\ Len(responses) >= 1
    /\ Len(invocations) >= 1
    /\ step = Len(responses) + 1

\* this step is a turn that does not end the run: the gateway returned a
\* text and the loop goes on
NonTerminalTurn ==
    /\ Len(responses') = Len(responses) + 1
    /\ status' = "running"

\* the text the gateway returned in this step
ThisResponse == responses'[Len(responses')]

\* the message this step appends in place k after the history it began with
AppendedAt(k) == messages'[Len(messages) + k]

\* C15: a turn that does not end the run appends the plan-status message,
\* then an assistant message whose content is exactly the text the gateway
\* returned in that turn, then one more message.
C15_AssistantMessageIsRaw ==
    [][NonTerminalTurn =>
          /\ Len(messages') = Len(messages) + 3
          /\ AppendedAt(2) = Msg("assistant", ThisResponse)]_vars

\* a message: a role among system, user, assistant and a content
IsMessage(m) ==
    /\ DOMAIN m = {"role", "content"}
    /\ m["role"] \in {"system", "user", "assistant"}
    /\ Len(m["content"]) >= 0

\* C16: the history only grows at its end, and every message in it (so
\* every message of a history passed to the gateway) has a role among
\* system, user, assistant and a content.
C16_HistoryAppendOnly ==
    /\ [][/\ Len(messages') >= Len(messages)
          /\ SubSeq(messages', 1, Len(messages)) = messages]_vars
    /\ [](\A i \in DOMAIN messages : IsMessage(messages[i]))

\* Plan and Replan directives whose steps are not a list of strings
BadPlanTexts == {r \in Responses : KindOf[r] = "plan"} \ PlanTexts

\* the user message m tells the outcome of a turn whose response was r
TellsOutcome(r, m) ==
    /\ r \in NoObjectTexts => StartsWith(m["content"], "Your last response was invalid JSON.")
    /\ r \in BadPlanTexts => StartsWith(m["content"], "Plan must be")
    /\ r \in PlanTexts => ~StartsWith(m["content"], "No plan exists")
    /\ r \in UnknownToolTexts => StartsWith(m["content"], "Tool '")
    /\ r \in KnownToolTexts =>
          StartsWith(m["content"], "Observation from tool " \o Parsed[r].obj.v["name"].v)
    /\ r \in OtherTypeTexts => ~StartsWith(m["content"], "Observation from tool")

\* C17: a turn that does not end the run appends, after the assistant
\* message, exactly one user message, and it tells the outcome of the
\* turn: the parse error for a response with no object, the plan
\* correction for a malformed plan, for an accepted plan no statement that
\* no plan exists, the list of names for an unknown tool, the observation
\* for a dispatched tool.
C17_OneTruthfulUserMessage ==
    [][NonTerminalTurn =>
          /\ Len(messages') = Len(messages) + 3
          /\ "role" \in DOMAIN AppendedAt(2)
          /\ AppendedAt(2)["role"] = "assistant"
          /\ IsUserMsg(AppendedAt(3))
          /\ TellsOutcome(ThisResponse, AppendedAt(3))]_vars

\* the text holds the character "{"
HasBrace(t) == FindFrom(t, "{", 1) # 0

\* C13: for a text with no "{" in it, parse_agent_json returns no object
\* and the reason "No JSON object found in response."
C13_NoBraceIsNoObject ==
    (parsed.called /\ ~HasBrace(text)) =>
        /\ IsNone(parsed.obj)
        /\ parsed.err = "No JSON object found in response."

\* C18: for a text that holds one directive object with prose around it,
\* parse_agent_json returns what it returns for the object alone: the
\* directive.
C18_FirstObjectInProse ==
    (parsed.called /\ embedded # "") =>
        /\ IsDict(parsed.obj)
        /\ parsed.err = ""
        /\ parsed.obj = parse_agent_json(embedded).obj

DataOf(line) == json_loads(Strip(Slice(Strip(line), Len("data:") + 1, Len(Strip(line)))))

\* the line holds an event whose JSON-RPC id is i
IsEventFor(line, i) ==
    /\ StartsWith(Strip(line), "data:")
    /\ DataOf(line).ok
    /\ IsDict(DataOf(line).val)
    /\ EqStr(Get(DataOf(line).val, "id", None), i)

RECURSIVE FirstEventFor(_, _)
\* the first event of the stream whose id is i, None when there is none
FirstEventFor(lines, i) ==
    IF lines = <<>> THEN None
    ELSE IF IsEventFor(Head(lines), i) THEN DataOf(Head(lines)).val
    ELSE FirstEventFor(Tail(lines), i)

\* the last response was an event stream
StreamAnswered == response.status = 200 /\ IsEventStreamType(response.headers)

\* C19: when the backend answers with an event stream, _post_jsonrpc
\* returns the event whose id is the id of the request, passing over the
\* events with other ids and the data it cannot parse; it raises only
\* when that event carries an error or the stream holds no such event.
C19_MatchingEventReturned ==
    (StreamAnswered /\ outcome.state # "none") =>
        IF /\ ~IsNone(FirstEventFor(response.body, request.id))
           /\ "error" \notin DOMAIN FirstEventFor(response.body, request.id).v
        THEN outcome = HttpReturn(FirstEventFor(response.body, request.id))
        ELSE outcome.state = "raised"

\* C20: a list_tools or call_tool call is forwarded to the session only
\* when start() has completed the handshake of that session; a call made
\* in any other state (no start, start waiting for the handshake, start
\* failed in the handshake) raises the "not started" error.
C20_ForwardedOnlyAfterHandshake ==
    \A i \in DOMAIN calls :
        (calls[i].op \in Requests /\ calls[i].at # "done") => calls[i].pc = "not_started"

====
